---- MODULE Spec2Model ----
(***************************************************************************)
(* A model of the document registry, the query engine and the compliance   *)
(* service of backend/app/services.py, together with the pydantic schemas  *)
(* of backend/app/schemas.py and the request handlers of                   *)
(* backend/app/main.py.                                                    *)
(*                                                                         *)
(* Text is modelled as a sequence of one-character strings, so that        *)
(* lower(), strip(), split(), the substring test and the ISO date          *)
(* conversion are computed rather than assumed.  A JSON value is a tagged  *)
(* record (null, str, int, dict, list); a pydantic model object is a       *)
(* function from field names to tagged values (null, str, int, date, url). *)
(* The store file is its text, represented by what json.loads makes of it: *)
(* blank text, text json.loads rejects, or the JSON value the text denotes.*)
(***************************************************************************)
EXTENDS Integers, Sequences, FiniteSets, TLC

VARIABLES
    file,       \* content of the store file (settings.document_store_path)
    ret,        \* the last handler call: its request and what it returned or raised
    prev,       \* history: content of the store file before the last handler call
    written,    \* history: id -> the record last registered under it since the last clear
    nextUuid,   \* number of identifiers uuid4() has produced so far
    lock,       \* DocumentRegistry._lock: the thread holding it, or NoThread
    pc,         \* per thread: its position inside a registry method
    call,       \* per thread: the registry method it runs and its argument
    data,       \* per thread: the local variable holding what _load() returned
    result,     \* per thread: what its call returned
    seqStore,   \* history: the store after the calls that have taken the lock, run one by one
    expect      \* history: per thread, what its call returns in that one-by-one order

vars == <<file, ret, prev, written, nextUuid, lock, pc, call, data, result, seqStore, expect>>

seqVars == <<file, ret, prev, written, nextUuid>>
thrVars == <<lock, pc, call, data, result, seqStore, expect>>

(***************************************************************************)
(* Bounds of the model.                                                    *)
(***************************************************************************)
\* uuid4() is called at most this many times in one behaviour
MaxUuid == 1
\* number of threads calling the registry concurrently
NumThreads == 2

(***************************************************************************)
(* Text.                                                                   *)
(***************************************************************************)
Whitespace == {" ", "\t", "\n"}

UpperToLower ==
    [A |-> "a", B |-> "b", C |-> "c", D |-> "d", E |-> "e", F |-> "f", G |-> "g",
     H |-> "h", I |-> "i", J |-> "j", K |-> "k", L |-> "l", M |-> "m", N |-> "n",
     O |-> "o", P |-> "p", Q |-> "q", R |-> "r", S |-> "s", T |-> "t", U |-> "u",
     V |-> "v", W |-> "w", X |-> "x", Y |-> "y", Z |-> "z"]

UpperCase == DOMAIN UpperToLower

\* the sequence f, which TLC then holds as a tuple instead of re-evaluating
\* the expression of f at every index it is applied to
Tuple(f) == f \o <<>>

\* str.lower()
Lower(s) ==
    Tuple([i \in 1..Len(s) |-> IF s[i] \in UpperCase THEN UpperToLower[s[i]] ELSE s[i]])

\* Python's `a in b` on strings
IsSubstr(a, b) ==
    \E i \in 0..(Len(b) - Len(a)) : \A j \in 1..Len(a) : b[i + j] = a[j]

RECURSIVE LStrip(_)
LStrip(s) ==
    IF s = <<>> \/ s[1] \notin Whitespace THEN s ELSE LStrip(Tail(s))

RECURSIVE RStrip(_)
RStrip(s) ==
    IF s = <<>> \/ s[Len(s)] \notin Whitespace THEN s ELSE RStrip(SubSeq(s, 1, Len(s) - 1))

\* str.strip()
Strip(s) == RStrip(LStrip(s))

RECURSIVE SplitAcc(_, _, _)
SplitAcc(s, cur, acc) ==
    IF s = <<>>
    THEN IF cur = <<>> THEN acc ELSE Append(acc, cur)
    ELSE IF s[1] \in Whitespace
         THEN SplitAcc(Tail(s), <<>>, IF cur = <<>> THEN acc ELSE Append(acc, cur))
         ELSE SplitAcc(Tail(s), Append(cur, s[1]), acc)

\* str.split(): the maximal runs of non-whitespace characters
Split(s) == SplitAcc(s, <<>>, <<>>)

RECURSIVE Join(_, _)
\* sep.join(parts)
Join(parts, sep) ==
    IF parts = <<>> THEN <<>>
    ELSE IF Len(parts) = 1 THEN parts[1]
    ELSE parts[1] \o sep \o Join(Tail(parts), sep)

DigitChars == <<"0", "1", "2", "3", "4", "5", "6", "7", "8", "9">>

DigitVal(c) == CHOOSE n \in 0..9 : DigitChars[n + 1] = c

RECURSIVE Decimal(_)
\* str(n) for n >= 0
Decimal(n) ==
    IF n < 10 THEN <<DigitChars[n + 1]>>
    ELSE Append(Decimal(n \div 10), DigitChars[(n % 10) + 1])

RECURSIVE ZeroPad(_, _)
ZeroPad(s, width) == IF Len(s) >= width THEN s ELSE ZeroPad(<<"0">> \o s, width)

RECURSIVE ParseNat(_, _)
ParseNat(s, acc) ==
    IF s = <<>> THEN acc ELSE ParseNat(Tail(s), 10 * acc + DigitVal(s[1]))

\* the characters that occur in identifiers, in code point order
IdAlphabet == <<"0", "1", "2", "3", "4", "5", "6", "7", "8", "9", "d", "u">>

CodePoint(c) == CHOOSE n \in 1..Len(IdAlphabet) : IdAlphabet[n] = c

RECURSIVE StrLess(_, _)
\* a < b on strings
StrLess(a, b) ==
    IF b = <<>> THEN FALSE
    ELSE IF a = <<>> THEN TRUE
    ELSE IF a[1] # b[1] THEN CodePoint(a[1]) < CodePoint(b[1])
    ELSE StrLess(Tail(a), Tail(b))

(***************************************************************************)
(* Tagged values.                                                          *)
(***************************************************************************)
Null == [t |-> "null"]
StrV(s) == [t |-> "str", s |-> s]
IntV(n) == [t |-> "int", n |-> n]
DateV(y, m, d) == [t |-> "date", y |-> y, m |-> m, d |-> d]
UrlV(s) == [t |-> "url", s |-> s]
DictV(m) == [t |-> "dict", m |-> m]
ListV == [t |-> "list"]

EmptyMap == [k \in {} |-> Null]

\* date.isoformat()
isoformat(v) ==
    ZeroPad(Decimal(v.y), 4) \o <<"-">> \o ZeroPad(Decimal(v.m), 2) \o <<"-">>
        \o ZeroPad(Decimal(v.d), 2)

\* pydantic's parse of a "YYYY-MM-DD" string into a date
ParseDate(s) ==
    DateV(ParseNat(SubSeq(s, 1, 4), 0), ParseNat(SubSeq(s, 6, 7), 0),
          ParseNat(SubSeq(s, 9, 10), 0))

\* truth value of a Python object: None and "" are false
Truthy(v) ==
    CASE v.t = "null" -> FALSE
      [] v.t = "str" -> v.s # <<>>
      [] v.t = "int" -> v.n # 0
      [] OTHER -> TRUE

\* str(x) of a value of a JSON-mode dump
PyStr(v) ==
    CASE v.t = "null" -> <<"N", "o", "n", "e">>
      [] v.t = "int" -> Decimal(v.n)
      [] OTHER -> v.s

(***************************************************************************)
(* schemas.py                                                              *)
(***************************************************************************)
FieldNames ==
    {"document_id", "tenant_id", "issuer", "product", "document_type",
     "reporting_period", "language", "source", "version", "filename", "content_url"}

s_en == <<"e", "n">>
s_upload == <<"u", "p", "l", "o", "a", "d">>

\* the default of a field that has one
FieldDefault(k) ==
    CASE k = "language" -> StrV(s_en)
      [] k = "source" -> StrV(s_upload)
      [] k = "version" -> IntV(1)
      [] OTHER -> Null

\* DocumentIngestionRequest.model_validate of a JSON mapping that is valid
\* for the schema: defaults for the keys left out, a date and a URL parsed
model_validate(raw) ==
    [k \in FieldNames |->
        IF k \notin DOMAIN raw THEN FieldDefault(k)
        ELSE IF k = "reporting_period" /\ raw[k].t = "str" THEN ParseDate(raw[k].s)
        ELSE IF k = "content_url" /\ raw[k].t = "str" THEN UrlV(raw[k].s)
        ELSE raw[k]]

\* model.model_dump(mode="json"): every field, a date as its ISO string
model_dump(doc) ==
    [k \in FieldNames |->
        IF doc[k].t = "date" THEN StrV(isoformat(doc[k]))
        ELSE IF doc[k].t = "url" THEN StrV(doc[k].s)
        ELSE doc[k]]

(***************************************************************************)
(* services.py: DocumentRegistry                                           *)
(***************************************************************************)
\* store file text that json.loads turns into value v
JsonText(v) == [kind |-> "json", value |-> v]
\* store file text that is empty after strip()
BlankText == [kind |-> "blank", value |-> Null]
\* store file text that json.loads rejects with JSONDecodeError
GarbageText == [kind |-> "garbage", value |-> Null]

\* _ensure_store on a missing file
ensure_store == JsonText(DictV(EmptyMap))

\* _load
load(f) ==
    IF f.kind = "json" THEN f.value ELSE DictV(EmptyMap)

\* the outcomes of Path.write_text: it opens the file for writing, which
\* truncates it, writes the text and closes the file
WriteFaults == {"none", "open", "truncated", "partial"}

write_text(f, text, fault) ==
    CASE fault = "none" -> [file |-> text, raised |-> "none"]
      [] fault = "open" -> [file |-> f, raised |-> "OSError"]
      [] fault = "truncated" -> [file |-> BlankText, raised |-> "OSError"]
      [] OTHER -> [file |-> GarbageText, raised |-> "OSError"]

\* _save
save(f, payload, fault) == write_text(f, JsonText(DictV(payload)), fault)

\* the document_id register resolves: payload.document_id or str(uuid4())
ResolveId(payload, uuid) ==
    IF Truthy(payload["document_id"]) THEN payload["document_id"].s ELSE uuid

\* an entry that keeps the request's own document_id
StoredEntry_NoStamp(payload, document_id, created_at) ==
    [created_at |-> created_at, document |-> model_dump(payload)]

\* the entry register stores under the resolved id
StoredEntry(payload, document_id, created_at) ==
    [created_at |-> created_at,
     document |-> model_dump([payload EXCEPT !["document_id"] = StrV(document_id)])]

\* an assignment that keeps the entry an id already has
SetItem_KeepFirst(m, k, v) ==
    [x \in DOMAIN m \cup {k} |-> IF x \in DOMAIN m THEN m[x] ELSE v]

\* data[document_id] = document_payload
SetItem(m, k, v) == [x \in DOMAIN m \cup {k} |-> IF x = k THEN v ELSE m[x]]

\* register: the file afterwards, the exception raised if any, the response
register(f, payload, created_at, uuid, fault) ==
    LET loaded == load(f)
        document_id == ResolveId(payload, uuid)
    IN  IF loaded.t # "dict"
        THEN [file |-> f, raised |-> "TypeError", response |-> Null]
        ELSE LET w == save(f, SetItem(loaded.m, document_id,
                                      StoredEntry(payload, document_id, created_at)), fault)
             IN  [file |-> w.file, raised |-> w.raised,
                  response |-> IF w.raised = "none"
                               THEN [document_id |-> document_id, status |-> "received",
                                     received_at |-> created_at]
                               ELSE Null]

\* get: the exception raised if any, and the record or Null
get(f, document_id) ==
    LET loaded == load(f)
    IN  IF loaded.t # "dict"
        THEN [raised |-> "AttributeError", value |-> Null]
        ELSE IF document_id \notin DOMAIN loaded.m
        THEN [raised |-> "none", value |-> Null]
        ELSE [raised |-> "none", value |-> model_validate(loaded.m[document_id].document)]

RECURSIVE SortedKeys(_)
\* the keys of a mapping in the order json.dumps(sort_keys=True) wrote them,
\* which is the order json.loads gives them back in
SortedKeys(ks) ==
    IF ks = {} THEN <<>>
    ELSE LET least == CHOOSE k \in ks : \A o \in ks \ {k} : StrLess(k, o)
         IN  <<least>> \o SortedKeys(ks \ {least})

\* list: the exception raised if any, and the records in the mapping's order
list(f) ==
    LET loaded == load(f)
    IN  IF loaded.t # "dict"
        THEN [raised |-> "AttributeError", value |-> <<>>]
        ELSE LET keys == SortedKeys(DOMAIN loaded.m)
             IN  [raised |-> "none",
                  value |-> Tuple([i \in 1..Len(keys) |->
                                      model_validate(loaded.m[keys[i]].document)])]

\* clear
clear(f, fault) == save(f, EmptyMap, fault)

(***************************************************************************)
(* Scores: exact fractions, as Python computes them in floating point.     *)
(***************************************************************************)
Rat(n, d) == [num |-> n, den |-> d]
RatLess(a, b) == a.num * b.den < b.num * a.den
RatMax(a, b) == IF RatLess(a, b) THEN b ELSE a
RatMin(a, b) == IF RatLess(b, a) THEN b ELSE a

\* round(x, 2), as the number of hundredths: the nearest one, a tie going to
\* the even one (a tie needs a denominator divisible by 8, where the float
\* is exact)
Round2(x) ==
    LET twice == 200 * x.num
        q == (twice + x.den) \div (2 * x.den)
        tie == (twice + x.den) % (2 * x.den) = 0
    IN  Rat(IF tie /\ q % 2 = 1 THEN q - 1 ELSE q, 100)

(***************************************************************************)
(* services.py: QueryEngine                                                *)
(***************************************************************************)
\* doc_data.get(key, "")
DocGet(doc_data, key) ==
    IF key \in DOMAIN doc_data THEN doc_data[key] ELSE StrV(<<>>)

\* the condition of line 102 for one document
PassesFilters(document, filters) ==
    LET doc_data == model_dump(document)
    IN  \A key \in DOMAIN filters :
            Lower(PyStr(DocGet(doc_data, key))) = Lower(filters[key])

\* _filter_documents; filters is Null or a mapping from keys to text
filter_documents(documents, filters) ==
    IF filters = Null \/ DOMAIN filters = {}
    THEN documents
    ELSE SelectSeq(documents, LAMBDA d : PassesFilters(d, filters))

\* the text of one document that answer searches
Searchable(document) ==
    LET parts == <<document["issuer"], document["product"], document["document_type"],
                   document["language"], document["source"], document["filename"],
                   IF Truthy(document["reporting_period"])
                   THEN StrV(isoformat(document["reporting_period"])) ELSE Null>>
        kept == SelectSeq(parts, Truthy)
    IN  Lower(Join([i \in 1..Len(kept) |-> kept[i].s], <<" ">>))

\* sum(1 for token in query.split() if token in searchable)
TokenHits(tokens, searchable) ==
    Cardinality({i \in 1..Len(tokens) : IsSubstr(tokens[i], searchable)})

\* the score of lines 126-129
RawScore(query, tokens, searchable) ==
    IF query = <<>> THEN Rat(0, 1)
    ELSE Rat(TokenHits(tokens, searchable), IF Len(tokens) > 1 THEN Len(tokens) ELSE 1)

\* the condition of line 130
Qualifies_WholeQuery(query, searchable, score) ==
    \/ query = <<>>
    \/ IsSubstr(query, searchable)

Qualifies(query, searchable, score) ==
    \/ query = <<>>
    \/ IsSubstr(query, searchable)
    \/ RatLess(Rat(0, 1), score)

\* the two floors exchanged
ScoreFloor_Swapped(query) == IF query # <<>> THEN Rat(10, 100) ELSE Rat(5, 100)

\* the floor of line 131: 0.05 if query else 0.1
ScoreFloor(query) == IF query # <<>> THEN Rat(5, 100) ELSE Rat(10, 100)

\* the score appended at line 131
MatchScore(query, score) ==
    RatMin(Rat(1, 1), RatMax(score, ScoreFloor(query)))

\* the body of the loop of lines 111-131 for one document: whether it is
\* appended to matches, and with what score
ScoreDocument(query, tokens, document) ==
    LET searchable == Searchable(document)
        score == RawScore(query, tokens, searchable)
    IN  [document |-> document,
         qualifies |-> Qualifies(query, searchable, score),
         score |-> MatchScore(query, score)]

RECURSIVE InsertDesc(_, _)
InsertDesc(sorted, x) ==
    IF sorted = <<>> THEN <<x>>
    ELSE IF RatLess(sorted[1].score, x.score) THEN <<x>> \o sorted
    ELSE <<sorted[1]>> \o InsertDesc(Tail(sorted), x)

RECURSIVE SortAcc(_, _)
SortAcc(ms, acc) ==
    IF ms = <<>> THEN acc ELSE SortAcc(Tail(ms), InsertDesc(acc, ms[1]))

\* the matches left in store order
SortByScoreDesc_Unsorted(ms) == ms

\* matches.sort(key=lambda item: item[1], reverse=True): stable
SortByScoreDesc(ms) == SortAcc(ms, <<>>)

\* matches[: max_results]
Take(ms, n) == SubSeq(ms, 1, IF Len(ms) < n THEN Len(ms) ELSE n)

s_unknown == <<"u", "n", "k", "n", "o", "w", "n">>
s_unspecified ==
    <<"u", "n", "s", "p", "e", "c", "i", "f", "i", "e", "d", " ", "p", "e", "r", "i", "o", "d">>

NoMatchAnswer ==
    "No documents matched your query. Try adjusting the query text or filters once documents have been processed."
FoundHeader == "Found the following documents matching your request:"

\* the QueryResultSnippet of one match; the excerpt is given by the three
\* values its fixed format interpolates
Snippet(match) ==
    [document_id |-> IF Truthy(match.document["document_id"])
                     THEN match.document["document_id"].s ELSE s_unknown,
     section_heading |-> "Metadata",
     page |-> Null,
     excerpt |-> [issuer |-> match.document["issuer"].s,
                  product |-> match.document["product"].s,
                  filename |-> match.document["filename"].s],
     score |-> Round2(match.score)]

\* one bullet of the answer text, given by the three values it interpolates
AnswerLine(match) ==
    [product |-> match.document["product"].s,
     document_type |-> match.document["document_type"].s,
     reporting_period |-> IF Truthy(match.document["reporting_period"])
                          THEN isoformat(match.document["reporting_period"])
                          ELSE s_unspecified]

\* answer, but for latency_ms: the exception raised if any, the documents
\* that were scored, the answer (its lines) and the citations
answer(f, payload) ==
    LET listed == list(f)
        documents == filter_documents(listed.value, payload.document_filters)
        query == Lower(Strip(payload.query))
        tokens == Split(query)
        scored == Tuple([i \in 1..Len(documents) |->
                            ScoreDocument(query, tokens, documents[i])])
        kept == SelectSeq(scored, LAMBDA m : m.qualifies)
        matches == Tuple([i \in 1..Len(kept) |->
                             [document |-> kept[i].document, score |-> kept[i].score]])
        top == Take(SortByScoreDesc(matches), payload.max_results)
    IN  IF listed.raised # "none"
        THEN [raised |-> listed.raised, documents |-> <<>>, answer |-> <<>>,
              citations |-> <<>>]
        ELSE [raised |-> "none",
              documents |-> documents,
              answer |-> IF top # <<>>
                         THEN <<FoundHeader>> \o [i \in 1..Len(top) |-> AnswerLine(top[i])]
                         ELSE <<NoMatchAnswer>>,
              citations |-> [i \in 1..Len(top) |-> Snippet(top[i])]]

(***************************************************************************)
(* services.py: ComplianceService                                          *)
(***************************************************************************)
VerifiedLanguages ==
    {<<"e", "n">>, <<"e", "s">>, <<"f", "r">>, <<"d", "e">>, <<"i", "t">>, <<"z", "h">>}

s_missing_suffix ==
    <<"-", "m", "i", "s", "s", "i", "n", "g", "-", "r", "e", "p", "o", "r", "t", "i", "n", "g",
      "-", "p", "e", "r", "i", "o", "d">>
s_unverified_suffix ==
    <<"-", "u", "n", "v", "e", "r", "i", "f", "i", "e", "d", "-", "l", "a", "n", "g", "u", "a",
      "g", "e">>

Alert(document, suffix, rule_id, severity, now) ==
    [alert_id |-> PyStr(document["document_id"]) \o suffix,
     document_id |-> IF Truthy(document["document_id"])
                     THEN document["document_id"].s ELSE s_unknown,
     rule_id |-> rule_id,
     severity |-> severity,
     status |-> "new",
     created_at |-> now,
     assignee |-> Null]

\* the language compared as stored, without lowercasing
AlertsOf_CaseSensitive(document, now) ==
    (IF document["reporting_period"] = Null
     THEN <<Alert(document, s_missing_suffix, "missing_reporting_period", "medium", now)>>
     ELSE <<>>)
    \o
    (IF document["language"].s \notin VerifiedLanguages
     THEN <<Alert(document, s_unverified_suffix, "unverified_language", "low", now)>>
     ELSE <<>>)

\* the alerts the loop body of list_alerts appends for one document
AlertsOf(document, now) ==
    (IF document["reporting_period"] = Null
     THEN <<Alert(document, s_missing_suffix, "missing_reporting_period", "medium", now)>>
     ELSE <<>>)
    \o
    (IF Lower(document["language"].s) \notin VerifiedLanguages
     THEN <<Alert(document, s_unverified_suffix, "unverified_language", "low", now)>>
     ELSE <<>>)

RECURSIVE AlertsAcc(_, _, _)
AlertsAcc(documents, now, acc) ==
    IF documents = <<>> THEN acc
    ELSE AlertsAcc(Tail(documents), now, acc \o AlertsOf(documents[1], now))

\* list_alerts: the exception raised if any, the alerts and their total
list_alerts(f, now) ==
    LET listed == list(f)
        alerts == AlertsAcc(listed.value, now, <<>>)
    IN  IF listed.raised # "none"
        THEN [raised |-> listed.raised, alerts |-> <<>>, total |-> 0]
        ELSE [raised |-> "none", alerts |-> alerts, total |-> Len(alerts)]

(***************************************************************************)
(* Requests.                                                               *)
(***************************************************************************)
s_t1 == <<"t", "1">>
s_Acme == <<"A", "c", "m", "e">>
s_FundA == <<"F", "u", "n", "d", " ", "A">>
s_FundB == <<"F", "u", "n", "d", " ", "B">>
s_Bond == <<"B", "o", "n", "d">>
s_fs == <<"f", "s">>
s_apdf == <<"a", ".", "p", "d", "f">>
s_bpdf == <<"b", ".", "p", "d", "f">>
s_FR == <<"F", "R">>
s_xx == <<"x", "x">>
s_api == <<"a", "p", "i">>
s_date == <<"2", "0", "2", "3", "-", "1", "2", "-", "3", "1">>
s_url == <<"h", "t", "t", "p", ":", "/", "/", "x", "/">>
s_d1 == <<"d", "1">>
s_d2 == <<"d", "2">>

\* the n-th identifier uuid4() produces
Uuid(n) == <<"u">> \o Decimal(n)

\* request bodies of POST /documents, without a document_id
BodyMinimal ==
    [tenant_id |-> StrV(s_t1), issuer |-> StrV(s_Acme), product |-> StrV(s_FundA),
     document_type |-> StrV(s_fs), filename |-> StrV(s_apdf)]

BodyFull ==
    [tenant_id |-> StrV(s_t1), issuer |-> StrV(s_Acme), product |-> StrV(s_FundB),
     document_type |-> StrV(s_fs), reporting_period |-> StrV(s_date),
     language |-> StrV(s_FR), source |-> StrV(s_api), version |-> IntV(2),
     filename |-> StrV(s_bpdf), content_url |-> StrV(s_url)]

BodyUnverified ==
    [tenant_id |-> StrV(s_t1), issuer |-> StrV(s_Acme), product |-> StrV(s_Bond),
     document_type |-> StrV(s_fs), reporting_period |-> Null,
     language |-> StrV(s_xx), filename |-> StrV(s_apdf)]

WithId(body, id) == SetItem(body, "document_id", id)

ExplicitIds == {s_d1}

\* the document_id of a request body: left out, null, empty or explicit
IdChoices == {Null, StrV(<<>>)} \cup {StrV(i) : i \in ExplicitIds}

RegistryBodies == {BodyMinimal, BodyFull}

RegistryRequests ==
    RegistryBodies \cup {WithId(b, i) : b \in RegistryBodies, i \in IdChoices \ {Null}}
        \cup {WithId(BodyMinimal, Null)}

\* values datetime.utcnow() takes
Instants == {1, 2}

\* identifiers asked for by GET /documents/{document_id}
LookupIds == ExplicitIds \cup {Uuid(n) : n \in 1..MaxUuid} \cup {s_d2}

\* request bodies of POST /query
MaxResultsLe == 20
q_empty == <<>>
q_blank == <<" ", " ">>
q_FundB == <<"F", "u", "n", "d", " ", "B">>
q_fund_b == <<" ", "f", "u", "n", "d", " ", " ", " ", "b", " ">>
q_zzz == <<"z", "z", "z">>
q_fund_zzz == <<"f", "u", "n", "d", " ", "z", "z", "z">>
q_acme_zzz_qq == <<"a", "c", "m", "e", " ", "z", "z", "z", " ", "q", "q">>
q_acme_fund_zzz == <<"A", "c", "m", "e", " ", "F", "u", "n", "d", " ", "z", "z", "z">>
q_bond_8 == <<"b", "o", "n", "d", " ", "q", " ", "q", " ", "q", " ", "q", " ", "q", " ", "q", " ", "q">>
q_three_of_8 == <<"a", "c", "m", "e", " ", "f", "s", " ", "p", "d", "f", " ", "q", " ", "q", " ", "q", " ", "q", " ", "q">>
\* "acme" followed by twenty-four tokens that occur in no document
q_one_of_25 ==
    <<"a", "c", "m", "e", " ", "z", " ", "z", " ", "z", " ", "z", " ", "z", " ", "z", " ", "z", " ", "z", " ", "z", " ", "z", " ", "z", " ", "z">> \o
    <<" ", "z", " ", "z", " ", "z", " ", "z", " ", "z", " ", "z", " ", "z", " ", "z", " ", "z", " ", "z", " ", "z", " ", "z">>

f_language_fr == [language |-> <<"f", "r">>]
f_language_EN == [language |-> <<"E", "N">>]
f_period_empty == [reporting_period |-> <<>>]
f_period_none == [reporting_period |-> <<"n", "o", "n", "e">>]
f_url_empty == [content_url |-> <<>>]
f_unknown_empty == [nosuch |-> <<>>]
f_unknown_x == [nosuch |-> <<"x">>]
f_product_and_source == [product |-> <<"f", "u", "n", "d", " ", "b">>, source |-> <<"A", "P", "I">>]
f_version == [version |-> <<"1">>]
f_id == [document_id |-> <<"D", "1">>]

QueryRequest(q, f, n) == [query |-> q, document_filters |-> f, max_results |-> n]

QueryRequests ==
    {QueryRequest(q_empty, Null, 1),
     QueryRequest(q_empty, EmptyMap, MaxResultsLe),
     QueryRequest(q_blank, f_period_none, 5),
     QueryRequest(q_empty, f_period_empty, 5),
     QueryRequest(q_empty, f_url_empty, 5),
     QueryRequest(q_empty, f_unknown_empty, 5),
     QueryRequest(q_empty, f_unknown_x, 5),
     QueryRequest(q_empty, f_version, 5),
     QueryRequest(q_empty, f_id, 5),
     QueryRequest(q_FundB, Null, 5),
     QueryRequest(q_fund_b, f_product_and_source, 5),
     QueryRequest(q_zzz, Null, 5),
     QueryRequest(q_fund_zzz, f_language_EN, 5),
     QueryRequest(q_fund_zzz, f_language_fr, 5),
     QueryRequest(q_acme_zzz_qq, Null, 5),
     QueryRequest(q_acme_fund_zzz, Null, 1),
     QueryRequest(q_acme_fund_zzz, Null, 2),
     QueryRequest(q_bond_8, Null, MaxResultsLe),
     QueryRequest(q_three_of_8, Null, MaxResultsLe),
     QueryRequest(q_one_of_25, Null, MaxResultsLe)}

\* request bodies of POST /documents that build the stores queried
IngestRequests ==
    {WithId(BodyMinimal, StrV(s_d1)), WithId(BodyFull, StrV(s_d1)),
     WithId(BodyUnverified, StrV(s_d2)),
     BodyMinimal, BodyUnverified}

(***************************************************************************)
(* main.py: the handlers, one call at a time.                              *)
(***************************************************************************)
\* POST /documents
ingest_document(raw, created_at, fault) ==
    LET payload == model_validate(raw)
        fresh == ~Truthy(payload["document_id"])
        r == register(file, payload, created_at, Uuid(nextUuid + 1), fault)
    IN  /\ fresh => nextUuid < MaxUuid
        /\ file' = r.file
        /\ prev' = file
        /\ nextUuid' = IF fresh THEN nextUuid + 1 ELSE nextUuid
        /\ ret' = [op |-> "ingest", raw |-> raw, request |-> payload,
                   raised |-> r.raised, response |-> r.response]
        /\ written' = IF r.raised = "none"
                      THEN SetItem(written, r.response.document_id, raw)
                      ELSE written
        /\ UNCHANGED thrVars

\* GET /documents/{document_id}
get_document(document_id) ==
    LET r == get(file, document_id)
    IN  /\ ret' = [op |-> "get", request |-> document_id, raised |-> r.raised,
                   status |-> IF r.raised # "none" THEN 500
                              ELSE IF r.value = Null THEN 404 ELSE 200,
                   value |-> r.value]
        /\ prev' = file
        /\ UNCHANGED <<file, written, nextUuid>>
        /\ UNCHANGED thrVars

\* GET /documents
list_documents ==
    LET r == list(file)
    IN  /\ ret' = [op |-> "list", raised |-> r.raised, value |-> r.value]
        /\ prev' = file
        /\ UNCHANGED <<file, written, nextUuid>>
        /\ UNCHANGED thrVars

\* the test fixture _reset_registry: document_registry.clear()
reset_registry(fault) ==
    LET r == clear(file, fault)
    IN  /\ file' = r.file
        /\ prev' = file
        /\ ret' = [op |-> "clear", raised |-> r.raised]
        /\ written' = IF r.raised = "none" THEN EmptyMap ELSE written
        /\ UNCHANGED nextUuid
        /\ UNCHANGED thrVars

\* POST /query
query_knowledge_base(payload) ==
    LET r == answer(file, payload)
    IN  /\ ret' = [op |-> "query", request |-> payload, raised |-> r.raised,
                   scored |-> {r.documents[i]["document_id"].s : i \in 1..Len(r.documents)},
                   answer |-> r.answer,
                   citations |-> r.citations]
        /\ prev' = file
        /\ UNCHANGED <<file, written, nextUuid>>
        /\ UNCHANGED thrVars

\* GET /alerts
list_compliance_alerts(now) ==
    LET r == list_alerts(file, now)
    IN  /\ ret' = [op |-> "alerts", raised |-> r.raised, now |-> now,
                   alerts |-> r.alerts, total |-> r.total]
        /\ prev' = file
        /\ UNCHANGED <<file, written, nextUuid>>
        /\ UNCHANGED thrVars

NoThread == 0
Threads == 1..NumThreads

InitThreads ==
    /\ lock = NoThread
    /\ pc = [t \in Threads |-> "idle"]
    /\ call = [t \in Threads |-> Null]
    /\ data = [t \in Threads |-> Null]
    /\ result = [t \in Threads |-> Null]
    /\ seqStore = ensure_store
    /\ expect = [t \in Threads |-> Null]

Init ==
    /\ file = ensure_store
    /\ ret = [op |-> "start"]
    /\ prev = ensure_store
    /\ written = EmptyMap
    /\ nextUuid = 0
    /\ InitThreads

Ingest == \E raw \in RegistryRequests, ts \in Instants : ingest_document(raw, ts, "none")
GetDocument == \E id \in LookupIds : get_document(id)
ListDocuments == list_documents
ResetRegistry == reset_registry("none")

Next == Ingest \/ GetDocument \/ ListDocuments \/ ResetRegistry

Spec == Init /\ [][Next]_vars

(***************************************************************************)
(* The query engine and the compliance service over stores that            *)
(* POST /documents has built.                                              *)
(***************************************************************************)
IngestForQuery == \E raw \in IngestRequests : ingest_document(raw, 1, "none")
Query == \E payload \in QueryRequests : query_knowledge_base(payload)
ListAlerts == \E now \in Instants : list_compliance_alerts(now)

NextQuery == IngestForQuery \/ Query \/ ListAlerts \/ ResetRegistry

SpecQuery == Init /\ [][NextQuery]_vars

(***************************************************************************)
(* The registry over a store file whose content the program did not write. *)
(***************************************************************************)
\* store file contents that are not a serialized mapping of records: empty
\* text, text json.loads rejects, a JSON list, the JSON null
CorruptFiles == {BlankText, GarbageText, JsonText(ListV), JsonText(Null)}

InitCorrupt ==
    /\ file \in CorruptFiles
    /\ ret = [op |-> "start"]
    /\ prev = file
    /\ written = EmptyMap
    /\ nextUuid = 0
    /\ InitThreads

SpecCorrupt == InitCorrupt /\ [][Next]_vars

(***************************************************************************)
(* The registry over storage whose writes may fail.                        *)
(***************************************************************************)
IngestMayFail ==
    \E raw \in RegistryRequests, ts \in Instants, fault \in WriteFaults :
        ingest_document(raw, ts, fault)
ResetMayFail == \E fault \in WriteFaults : reset_registry(fault)

NextFail == IngestMayFail \/ GetDocument \/ ListDocuments \/ ResetMayFail

SpecFail == Init /\ [][NextFail]_vars

(***************************************************************************)
(* services.py: DocumentRegistry called by concurrent threads, one step    *)
(* per lock operation, read of the file and write of the file.             *)
(***************************************************************************)
\* the calls a thread makes; created_at is taken before the lock (line 50)
ThreadCalls ==
    {[op |-> "register", payload |-> model_validate(raw), created_at |-> 1] :
        raw \in {WithId(BodyMinimal, StrV(s_d1)), BodyUnverified}}
    \cup {[op |-> "get", document_id |-> s_d1], [op |-> "list"], [op |-> "clear"]}

NeedsUuid(c) == c.op = "register" /\ ~Truthy(c.payload["document_id"])

\* a lock that is granted whoever holds it
LockFree_Always == TRUE

\* Lock.acquire succeeds only on a lock nobody holds
LockFree == lock = NoThread

\* a thread enters a registry method
Call(t) ==
    \E c \in ThreadCalls :
        /\ pc[t] = "idle"
        /\ NeedsUuid(c) =>
              nextUuid + Cardinality({o \in Threads : pc[o] # "idle" /\ pc[o] # "done"
                                                     /\ NeedsUuid(call[o])}) < MaxUuid
        /\ call' = [call EXCEPT ![t] = c]
        /\ pc' = [pc EXCEPT ![t] = "acquire"]
        /\ UNCHANGED <<file, ret, prev, written, nextUuid, lock, data, result, seqStore, expect>>

\* what the call returns when the calls run one at a time, and the store then
SeqEffect(c, store, uuid) ==
    CASE c.op = "register" ->
            LET r == register(store, c.payload, c.created_at, uuid, "none")
            IN  [store |-> r.file, value |-> r.response]
      [] c.op = "get" -> [store |-> store, value |-> get(store, c.document_id).value]
      [] c.op = "list" -> [store |-> store, value |-> list(store).value]
      [] OTHER -> [store |-> clear(store, "none").file, value |-> Null]

\* with self._lock: entry
Acquire(t) ==
    /\ pc[t] = "acquire"
    /\ LockFree
    /\ lock' = t
    /\ pc' = [pc EXCEPT ![t] = IF call[t].op = "clear" THEN "save" ELSE "load"]
    /\ LET e == SeqEffect(call[t], seqStore, Uuid(nextUuid + 1))
       IN  /\ seqStore' = e.store
           /\ expect' = [expect EXCEPT ![t] = e.value]
    /\ UNCHANGED <<file, ret, prev, written, nextUuid, call, data, result>>

\* self._load()
Load(t) ==
    /\ pc[t] = "load"
    /\ data' = [data EXCEPT ![t] = load(file)]
    /\ pc' = [pc EXCEPT ![t] = IF call[t].op = "register" THEN "save" ELSE "release"]
    /\ UNCHANGED <<file, ret, prev, written, nextUuid, lock, call, result, seqStore, expect>>

\* lines 53-60 of register, line 85 of clear
Save(t) ==
    /\ pc[t] = "save"
    /\ IF call[t].op = "register"
       THEN LET c == call[t]
                document_id == ResolveId(c.payload, Uuid(nextUuid + 1))
            IN  /\ file' = save(file, SetItem(data[t].m, document_id,
                                     StoredEntry(c.payload, document_id, c.created_at)),
                                "none").file
                /\ nextUuid' = IF NeedsUuid(c) THEN nextUuid + 1 ELSE nextUuid
                /\ result' = [result EXCEPT ![t] =
                                 [document_id |-> document_id, status |-> "received",
                                  received_at |-> c.created_at]]
       ELSE /\ file' = save(file, EmptyMap, "none").file
            /\ UNCHANGED <<nextUuid, result>>
    /\ pc' = [pc EXCEPT ![t] = "release"]
    /\ UNCHANGED <<ret, prev, written, lock, call, data, seqStore, expect>>

\* with self._lock: exit, and the rest of the method on its local data
Release(t) ==
    /\ pc[t] = "release"
    /\ lock' = NoThread
    /\ pc' = [pc EXCEPT ![t] = "done"]
    /\ result' = [result EXCEPT ![t] =
          CASE call[t].op = "get" ->
                  IF call[t].document_id \in DOMAIN data[t].m
                  THEN model_validate(data[t].m[call[t].document_id].document)
                  ELSE Null
            [] call[t].op = "list" ->
                  LET keys == SortedKeys(DOMAIN data[t].m)
                  IN  Tuple([i \in 1..Len(keys) |-> model_validate(data[t].m[keys[i]].document)])
            [] OTHER -> result[t]]
    /\ UNCHANGED <<file, ret, prev, written, nextUuid, call, data, seqStore, expect>>

\* the method has returned to its caller
Return(t) ==
    /\ pc[t] = "done"
    /\ pc' = [pc EXCEPT ![t] = "idle"]
    /\ call' = [call EXCEPT ![t] = Null]
    /\ data' = [data EXCEPT ![t] = Null]
    /\ result' = [result EXCEPT ![t] = Null]
    /\ expect' = [expect EXCEPT ![t] = Null]
    /\ UNCHANGED <<file, ret, prev, written, nextUuid, lock, seqStore>>

InitConc ==
    /\ file = ensure_store
    /\ ret = [op |-> "start"]
    /\ prev = ensure_store
    /\ written = EmptyMap
    /\ nextUuid = 0
    /\ lock = NoThread
    /\ pc = [t \in Threads |-> "idle"]
    /\ call = [t \in Threads |-> Null]
    /\ data = [t \in Threads |-> Null]
    /\ result = [t \in Threads |-> Null]
    /\ seqStore = ensure_store
    /\ expect = [t \in Threads |-> Null]

NextConc ==
    \E t \in Threads : Call(t) \/ Acquire(t) \/ Load(t) \/ Save(t) \/ Release(t) \/ Return(t)

SpecConc == InitConc /\ [][NextConc]_vars

(***************************************************************************)
(* The claims.                                                             *)
(***************************************************************************)
\* the defaults the specification names for fields left unset
ClaimedDefault(k) ==
    CASE k = "language" -> StrV(<<"e", "n">>)
      [] k = "source" -> StrV(<<"u", "p", "l", "o", "a", "d">>)
      [] k = "version" -> IntV(1)
      [] OTHER -> Null

\* record v, fetched under id, equals the registered request raw in every
\* field, with the defaults for the fields raw leaves unset, and carries the
\* returned id when idAssigned
RoundTrip(raw, id, v, idAssigned) ==
    /\ v # Null
    /\ DOMAIN v = FieldNames
    /\ \A k \in FieldNames \ {"document_id"} :
          v[k] = IF k \in DOMAIN raw THEN model_validate(raw)[k] ELSE ClaimedDefault(k)
    /\ v["document_id"] = IF idAssigned THEN StrV(id) ELSE model_validate(raw)["document_id"]

\* C1 as stated: register(r) followed, with no register of the same id and
\* no clear in between, by get(returned id) returns r in every field, with
\* the returned id in place of document_id when r had none (null).
C1_AsStated ==
    (ret.op = "get" /\ ret.request \in DOMAIN written) =>
        /\ ret.raised = "none"
        /\ RoundTrip(written[ret.request], ret.request, ret.value,
                     model_validate(written[ret.request])["document_id"] = Null)

\* C1 amended: as C1, with the returned id in place of document_id when r
\* had none or had the empty string (register assigns an id in both cases).
C1_RoundTrip ==
    (ret.op = "get" /\ ret.request \in DOMAIN written) =>
        /\ ret.raised = "none"
        /\ RoundTrip(written[ret.request], ret.request, ret.value,
                     ~Truthy(model_validate(written[ret.request])["document_id"]))

\* a record registered without an id and without its optional fields is
\* fetched under the assigned id while another record is stored as well
C1_Witness ==
    /\ ret.op = "get"
    /\ ret.request \in DOMAIN written
    /\ "document_id" \notin DOMAIN written[ret.request]
    /\ "language" \notin DOMAIN written[ret.request]
    /\ ret.value # Null
    /\ Cardinality(DOMAIN written) >= 2

\* C2: a register under an explicit id that is already stored leaves exactly
\* the new record under that id (fields the new request leaves unset are at
\* their defaults, the timestamp is the new one), the same number of
\* records, and every other entry as it was.
C2_Overwrite ==
    (/\ ret.op = "ingest"
     /\ ret.raised = "none"
     /\ Truthy(ret.request["document_id"])
     /\ ret.request["document_id"].s \in DOMAIN load(prev).m) =>
        LET id == ret.request["document_id"].s
            old == load(prev).m
            new == load(file).m
        IN  /\ new[id].document = model_dump(ret.request)
            /\ \A k \in FieldNames \ DOMAIN ret.raw :
                  new[id].document[k] = ClaimedDefault(k)
            /\ new[id].created_at = ret.response.received_at
            /\ DOMAIN new[id] = {"created_at", "document"}
            /\ Cardinality(DOMAIN new) = Cardinality(DOMAIN old)
            /\ \A o \in DOMAIN old \ {id} : o \in DOMAIN new /\ new[o] = old[o]

\* a record with a reporting period and a URL is replaced by one without
\* them, at another instant, while a second record is stored
C2_Witness ==
    /\ ret.op = "ingest"
    /\ ret.raised = "none"
    /\ Truthy(ret.request["document_id"])
    /\ ret.request["document_id"].s \in DOMAIN load(prev).m
    /\ LET id == ret.request["document_id"].s
           old == load(prev).m
       IN  /\ old[id].document["reporting_period"] # Null
           /\ old[id].document["content_url"] # Null
           /\ old[id].created_at # ret.response.received_at
           /\ "reporting_period" \notin DOMAIN ret.raw
           /\ Cardinality(DOMAIN old) >= 2

\* the stored records, by id
StoredIds == DOMAIN load(file).m
StoredDoc(id) == model_validate(load(file).m[id].document)

\* the tokens of a query: lowercased, trimmed, split at whitespace
QueryTokens(q) == Split(Lower(Strip(q)))
NonEmptyQuery(q) == Strip(q) # <<>>

\* the number of tokens of q that occur in the searchable text of record id
Hits(q, id) ==
    Cardinality({i \in 1..Len(QueryTokens(q)) :
                    IsSubstr(QueryTokens(q)[i], Searchable(StoredDoc(id)))})

\* the records that qualify for the last query: they passed the filter
\* stage and, when the query is not empty, hold at least one of its tokens
QualifyingIds ==
    {id \in ret.scored : NonEmptyQuery(ret.request.query) => Hits(ret.request.query, id) > 0}

\* the score the specification gives record id for query q, in hundredths
ClaimedScore(q, id) ==
    IF NonEmptyQuery(q)
    THEN Round2(RatMin(Rat(1, 1),
                       RatMax(Rat(Hits(q, id), Len(QueryTokens(q))), Rat(5, 100))))
    ELSE Rat(10, 100)

CitedIds == {ret.citations[i].document_id : i \in 1..Len(ret.citations)}

QueryDone == ret.op = "query" /\ ret.raised = "none"

Min(a, b) == IF a < b THEN a ELSE b

\* C5: for a query that is not empty after trimming, when no stored record
\* both passes the filters and holds one of the query's tokens, answer is
\* the fixed no-match message with no citations; when one does, there is at
\* least one citation.
C5_NoMatch ==
    (QueryDone /\ NonEmptyQuery(ret.request.query)) =>
        IF QualifyingIds = {}
        THEN ret.answer = <<NoMatchAnswer>> /\ ret.citations = <<>>
        ELSE ret.citations # <<>>

\* a non-empty query finds nothing although records passed the filters
C5_Witness ==
    /\ QueryDone
    /\ NonEmptyQuery(ret.request.query)
    /\ ret.scored # {}
    /\ ret.answer = <<NoMatchAnswer>>
    /\ ret.citations = <<>>

\* C6: the citations number min(max_results, qualifying records), are in
\* non-increasing order of score, cite distinct qualifying records, and no
\* qualifying record left out scores more than a cited one.
C6_RankingAndCap ==
    QueryDone =>
        /\ ret.request.max_results \in 1..MaxResultsLe
        /\ Len(ret.citations) = Min(ret.request.max_results, Cardinality(QualifyingIds))
        /\ Cardinality(CitedIds) = Len(ret.citations)
        /\ CitedIds \subseteq QualifyingIds
        /\ \A i \in 1..Len(ret.citations) : \A j \in 1..Len(ret.citations) :
              i < j => ~RatLess(ret.citations[i].score, ret.citations[j].score)
        /\ \A id \in QualifyingIds \ CitedIds : \A i \in 1..Len(ret.citations) :
              ~RatLess(ret.citations[i].score, ClaimedScore(ret.request.query, id))

\* max_results = 1 with three qualifying records of different scores
C6_Witness ==
    /\ QueryDone
    /\ ret.request.max_results = 1
    /\ Cardinality(QualifyingIds) = 3
    /\ Len(ret.citations) = 1
    /\ \E id \in QualifyingIds :
          RatLess(ClaimedScore(ret.request.query, id), ret.citations[1].score)

\* the verified languages as the specification lists them
ClaimedLanguages ==
    {<<"e", "n">>, <<"e", "s">>, <<"f", "r">>, <<"d", "e">>, <<"i", "t">>, <<"z", "h">>}

\* the alerts of the last GET /alerts for record id under rule
AlertsFor(id, rule) ==
    {i \in 1..Len(ret.alerts) :
        ret.alerts[i].document_id = id /\ ret.alerts[i].rule_id = rule}

\* C7: per stored record exactly one missing_reporting_period alert
\* (medium) iff its reporting period is null, exactly one
\* unverified_language alert (low) iff its lowercased language is outside
\* the verified set, and no other alert; every alert is new and unassigned;
\* total is the number of alerts.
C7_AlertCount ==
    (ret.op = "alerts" /\ ret.raised = "none") =>
        /\ \A id \in StoredIds :
              /\ Cardinality(AlertsFor(id, "missing_reporting_period")) =
                     IF StoredDoc(id)["reporting_period"] = Null THEN 1 ELSE 0
              /\ Cardinality(AlertsFor(id, "unverified_language")) =
                     IF Lower(StoredDoc(id)["language"].s) \notin ClaimedLanguages
                     THEN 1 ELSE 0
        /\ \A i \in 1..Len(ret.alerts) :
              /\ ret.alerts[i].document_id \in StoredIds
              /\ ret.alerts[i].rule_id \in {"missing_reporting_period", "unverified_language"}
              /\ ret.alerts[i].severity =
                     IF ret.alerts[i].rule_id = "missing_reporting_period"
                     THEN "medium" ELSE "low"
              /\ ret.alerts[i].status = "new"
              /\ ret.alerts[i].assignee = Null
        /\ ret.total = Len(ret.alerts)

\* one record raises both alerts, one raises one, one (language "FR")
\* raises none
C7_Witness ==
    /\ ret.op = "alerts"
    /\ ret.raised = "none"
    /\ \E a \in StoredIds, b \in StoredIds, c \in StoredIds :
          /\ Cardinality(AlertsFor(a, "missing_reporting_period")) = 1
          /\ Cardinality(AlertsFor(a, "unverified_language")) = 1
          /\ Cardinality(AlertsFor(b, "missing_reporting_period")) = 1
          /\ Cardinality(AlertsFor(b, "unverified_language")) = 0
          /\ Cardinality(AlertsFor(c, "missing_reporting_period")) = 0
          /\ Cardinality(AlertsFor(c, "unverified_language")) = 0
          /\ StoredDoc(c)["language"].s # Lower(StoredDoc(c)["language"].s)
    /\ ret.total = 3

\* the text the specification compares a filter value with: the field as a
\* string, or the empty string when the record has no value for the key
ClaimedFieldText(document, key) ==
    IF key \in FieldNames /\ model_dump(document)[key] # Null
    THEN PyStr(model_dump(document)[key])
    ELSE <<>>

ClaimedPasses(document, filters) ==
    \A key \in DOMAIN filters :
        Lower(ClaimedFieldText(document, key)) = Lower(filters[key])

\* C8: with a non-empty filter mapping a stored record takes part in
\* scoring iff, for every filter key, its field of that name, as a string
\* and without regard to case, equals the filter value, a field without a
\* value comparing as the empty string; without filters every record does.
C8_FilterSemantics ==
    QueryDone =>
        ret.scored =
            {id \in StoredIds :
                \/ ret.request.document_filters = Null
                \/ ClaimedPasses(StoredDoc(id), ret.request.document_filters)}

\* C9: a citation's score is min(1.0, max(m/n, 0.05)) rounded to two
\* places, within [0.05, 1.0], for a non-empty query of n tokens of which m
\* occur in the record's text; for an empty query every record that passed
\* the filters qualifies and scores exactly 0.1.
C9_ScoreValue ==
    QueryDone =>
        /\ \A i \in 1..Len(ret.citations) :
              /\ ret.citations[i].document_id \in StoredIds
              /\ ret.citations[i].score =
                     ClaimedScore(ret.request.query, ret.citations[i].document_id)
              /\ ret.citations[i].score.den = 100
              /\ ret.citations[i].score.num \in 5..100
        /\ ~NonEmptyQuery(ret.request.query) =>
              /\ Len(ret.citations) = Min(ret.request.max_results, Cardinality(ret.scored))
              /\ \A i \in 1..Len(ret.citations) : ret.citations[i].score = Rat(10, 100)

\* a record holding one token of twenty-five is cited at the floor 0.05
C9_Witness ==
    /\ QueryDone
    /\ Len(QueryTokens(ret.request.query)) > 20
    /\ \E i \in 1..Len(ret.citations) :
          /\ ret.citations[i].score = Rat(5, 100)
          /\ Hits(ret.request.query, ret.citations[i].document_id) = 1

\* a thread is between taking the lock and giving it back
InCritical(t) == pc[t] \in {"load", "save", "release"}

\* C3: the registry calls of concurrent threads are serialized: at most one
\* thread is between its lock entry and exit, and it holds the lock; when
\* no call is in progress the store is the one the calls produce run one by
\* one in the order they took the lock (so no registration is lost); and
\* every call returns what it returns in that order.
C3_Serialized ==
    /\ \A t \in Threads, o \in Threads : (InCritical(t) /\ InCritical(o)) => t = o
    /\ \A t \in Threads : InCritical(t) => lock = t
    /\ (\A t \in Threads : ~InCritical(t)) => file = seqStore
    /\ \A t \in Threads : pc[t] = "done" => result[t] = expect[t]

\* both threads have returned from registrations under distinct ids, one
\* of them assigned by the registry, and both records are in the store
C3_Witness ==
    /\ \A t \in Threads : pc[t] = "done" /\ call[t].op = "register"
    /\ \E t \in Threads, o \in Threads :
          /\ result[t].document_id # result[o].document_id
          /\ {result[t].document_id, result[o].document_id} \subseteq DOMAIN load(file).m

\* the store before the last call was not a serialized mapping of records
PrevCorrupt == prev.kind # "json" \/ prev.value.t # "dict"

\* C4: on a store file that is empty, unparseable, or parseable but not a
\* mapping, get returns absent, list returns the empty sequence, register
\* succeeds and leaves exactly the new record, and none of them raises.
C4_CorruptionNeverRaised ==
    PrevCorrupt =>
        /\ ret.op \in {"get", "list", "ingest"} => ret.raised = "none"
        /\ ret.op = "get" => ret.value = Null
        /\ ret.op = "list" => ret.value = <<>>
        /\ ret.op = "ingest" =>
              /\ file.kind = "json" /\ file.value.t = "dict"
              /\ DOMAIN file.value.m = {ret.response.document_id}

\* C10: a register or clear that fails with a storage I/O error leaves the
\* store holding exactly the records it held before the call.
C10_AtomicWrite ==
    (ret.op \in {"ingest", "clear"} /\ ret.raised = "OSError") =>
        load(file) = load(prev)

====
